---- MODULE Spec2Model ----
(***************************************************************************)
(* Account linking and sign-up of devflow.                                 *)
(*                                                                         *)
(* Two server flows write the User and Account collections inside a        *)
(* MongoDB transaction:                                                    *)
(*   - signUpWithCredentials (server action), and                          *)
(*   - POST of the sign-in-with-oauth route, reached through the signIn    *)
(*     callback of src/auth.ts.                                            *)
(* Every await of the source is one step of a request, so that requests    *)
(* interleave exactly where the code yields.  A transaction reads the      *)
(* snapshot taken at its first operation plus its own writes, keeps its    *)
(* writes private until commitTransaction, and a write that collides with  *)
(* a committed or a pending write of another transaction throws.           *)
(***************************************************************************)
EXTENDS Naturals, FiniteSets, Sequences, TLC

(* ---------------------------------------------------------------------- *)
(* Bounds and input domains                                                *)
(* ---------------------------------------------------------------------- *)

\* Number of requests (server action calls and callback calls) of a run.
MaxRequests == 2

Slots == 1..MaxRequests

\* bcrypt.hash(password, 12)
BcryptRounds == 12

ValidEmails == {"a@x.com", "b@x.com"}
Emails == ValidEmails \cup {"not-an-email"}
SignUpUsernames == {"Ana", "ana"}
Names == {"Ana", "Bob"}
Logins == {"Ana", "Bob"}
Images == {"img1", "img2"}
Passwords == {"secret123"}
OAuthProviders == {"github", "google"}
ProviderAccountIds == {"123"}

(* ---------------------------------------------------------------------- *)
(* Pure helpers                                                            *)
(* ---------------------------------------------------------------------- *)

\* String.prototype.toLowerCase on the strings of the model.
toLowerCase(s) ==
  CASE s = "Ana" -> "ana"
    [] s = "Bob" -> "bob"
    [] OTHER -> s

\* slugify(username, {lower: true, strict: true, trim: true}): the model's
\* usernames hold letters only, so only the lower-casing acts.
slugify(s) == toLowerCase(s)

\* bcrypt.hash(password, 12): a salted one-way hash, never the password.
bcryptHash(password, rounds) ==
  (IF rounds = 12 THEN "$2a$12$" ELSE "$2a$10$") \o password

\* SignUpSchema / SignInWithOAuthSchema: the email must be an email.
SchemaAccepts(p) == p.email \in ValidEmails

NoParams ==
  [name |-> "", username |-> "", email |-> "", password |-> "", image |-> "",
   provider |-> "", providerAccountId |-> ""]

NoResponse == [sent |-> FALSE, success |-> FALSE, name |-> "", message |-> ""]
Success == [sent |-> TRUE, success |-> TRUE, name |-> "", message |-> ""]

\* handleError(error): {success: false, error: {message}} built from the
\* thrown error; the error's class name is kept.
handleError(e) ==
  [sent |-> TRUE, success |-> FALSE, name |-> e.name, message |-> e.message]

NoError == [name |-> "", message |-> ""]
Err(n, m) == [name |-> n, message |-> m]

(* ---------------------------------------------------------------------- *)
(* State                                                                   *)
(* ---------------------------------------------------------------------- *)

VARIABLES
  users,                \* committed User documents
  accounts,             \* committed Account documents
  kind,                 \* per request: "none", "signup" or "callback"
  pc,                   \* per request: the await it is suspended at
  params,               \* per request: the validated input
  txn,                  \* per request: the ClientSession and its transaction
  existingUser,         \* per request: POST's existingUser (a set of <= 1)
  transactionCommited,  \* per request: signUpWithCredentials' flag
  error,                \* per request: the error caught
  response,             \* per request: what the flow returned
  calls,                \* per request: how often each collaborator was called
  accepted              \* per request: the signIn callback's return value

vars == <<users, accounts, kind, pc, params, txn, existingUser,
          transactionCommited, error, response, calls, accepted>>

NoTxn ==
  [state |-> "none", snapshotTaken |-> FALSE,
   snapUsers |-> {}, snapAccounts |-> {},
   newUsers |-> {}, updates |-> {}, newAccounts |-> {}]

NoCalls ==
  [startTransaction |-> 0, commitTransaction |-> 0, abortTransaction |-> 0,
   endSession |-> 0, signIn |-> 0, oAuthSignIn |-> 0]

Init ==
  /\ users = {}
  /\ accounts = {}
  /\ kind = [r \in Slots |-> "none"]
  /\ pc = [r \in Slots |-> "idle"]
  /\ params = [r \in Slots |-> NoParams]
  /\ txn = [r \in Slots |-> NoTxn]
  /\ existingUser = [r \in Slots |-> {}]
  /\ transactionCommited = [r \in Slots |-> FALSE]
  /\ error = [r \in Slots |-> NoError]
  /\ response = [r \in Slots |-> NoResponse]
  /\ calls = [r \in Slots |-> NoCalls]
  /\ accepted = [r \in Slots |-> "pending"]

(* ---------------------------------------------------------------------- *)
(* The database: documents, indexes, transactions                          *)
(* ---------------------------------------------------------------------- *)

Active(o) == txn[o].state = "active"

\* The transaction's snapshot is taken by its first operation.
TakeSnapshot(t) ==
  IF t.snapshotTaken THEN t
  ELSE [t EXCEPT !.snapshotTaken = TRUE, !.snapUsers = users,
                 !.snapAccounts = accounts]

\* { $set: updatedData } applied to one User document.
ApplySet(u, upd) ==
  [u EXCEPT !.name = IF "name" \in upd.fields THEN upd.name ELSE @,
            !.image = IF "image" \in upd.fields THEN upd.image ELSE @,
            !.ver = @ + 1]

ApplyUpdates(docs, upds) ==
  {IF \E w \in upds : w.id = u.id
     THEN ApplySet(u, CHOOSE w \in upds : w.id = u.id)
     ELSE u : u \in docs}

\* What a query run with .session(session) reads.
UsersSeen(t) == ApplyUpdates(t.snapUsers, t.updates) \cup t.newUsers
AccountsSeen(t) == t.snapAccounts \cup t.newAccounts

\* Writes other transactions hold and have not yet committed or aborted.
PendingUsers(r) == UNION {txn[o].newUsers : o \in {x \in Slots : x # r /\ Active(x)}}
PendingAccounts(r) == UNION {txn[o].newAccounts : o \in {x \in Slots : x # r /\ Active(x)}}
PendingUpdates(r) == UNION {txn[o].updates : o \in {x \in Slots : x # r /\ Active(x)}}

\* Mutation of UserKeyTaken: the User collection has no unique index.
UserKeyTaken_NoIndex(r, doc) == FALSE

\* Unique indexes of the User collection: email, username.
UserKeyTaken(r, doc) ==
  \E u \in users \cup PendingUsers(r) \cup txn[r].newUsers :
    u.email = doc.email \/ u.username = doc.username

\* Mutation of AccountKeyTaken: the Account collection has no unique index.
AccountKeyTaken_NoIndex(r, doc) == FALSE

\* Unique index of the Account collection: (provider, providerAccountId).
AccountKeyTaken(r, doc) ==
  \E a \in accounts \cup PendingAccounts(r) \cup txn[r].newAccounts :
    a.provider = doc.provider /\ a.providerAccountId = doc.providerAccountId

\* An update throws a write conflict when the document changed after the
\* snapshot or another open transaction holds a write to it.
UpdateConflict(r, seen) ==
  \/ \E w \in PendingUpdates(r) : w.id = seen.id
  \/ ~ \E u \in users : u.id = seen.id /\ u.ver = seen.ver

\* session.commitTransaction(), when it succeeds: the writes become visible.
UsersAfterCommit(t) == ApplyUpdates(users, t.updates) \cup t.newUsers
AccountsAfterCommit(t) == accounts \cup t.newAccounts

\* Mutation of UsersAfterAbort: the User written in the transaction survives
\* the abort (User.create without { session }).
UsersAfterAbort_Kept(t) == users \cup t.newUsers

\* session.abortTransaction(): the writes are discarded.
UsersAfterAbort(t) == users
AccountsAfterAbort(t) == accounts

Ended(t, how) ==
  [t EXCEPT !.state = how, !.newUsers = {}, !.updates = {}, !.newAccounts = {}]

Called(c, what) == [c EXCEPT ![what] = @ + 1]

\* throw inside the try block of request r: control goes to handler `to`.
Throw(r, e, to) ==
  /\ error' = [error EXCEPT ![r] = e]
  /\ pc' = [pc EXCEPT ![r] = to]

DbError == Err("MongoServerError", "database operation failed")
DuplicateKey == Err("MongoServerError", "duplicate key or write conflict")

(* ---------------------------------------------------------------------- *)
(* signUpWithCredentials                                                   *)
(* ---------------------------------------------------------------------- *)

\* The server action is called with params.
signUpWithCredentials(r) ==
  /\ pc[r] = "idle"
  /\ \A o \in Slots : o < r => kind[o] # "none"
  /\ \E n \in Names, u \in SignUpUsernames, e \in Emails, p \in Passwords :
       params' = [params EXCEPT ![r] =
                    [NoParams EXCEPT !.name = n, !.username = u, !.email = e,
                                     !.password = p]]
  /\ kind' = [kind EXCEPT ![r] = "signup"]
  /\ pc' = [pc EXCEPT ![r] = "su_validate"]
  /\ UNCHANGED <<users, accounts, txn, existingUser, transactionCommited,
                 error, response, calls, accepted>>

\* await action({ params, schema: SignUpSchema }); an Error is returned
\* through handleError before any session exists.
SignUpValidate(r) ==
  /\ pc[r] = "su_validate"
  /\ IF SchemaAccepts(params[r])
       THEN /\ pc' = [pc EXCEPT ![r] = "su_startSession"]
            /\ UNCHANGED <<error, response>>
       ELSE /\ error' = [error EXCEPT ![r] = Err("ValidationError", "Validation failed")]
            /\ response' = [response EXCEPT ![r] =
                              handleError(Err("ValidationError", "Validation failed"))]
            /\ pc' = [pc EXCEPT ![r] = "done"]
  /\ UNCHANGED <<users, accounts, kind, params, txn, existingUser,
                 transactionCommited, calls, accepted>>

\* const session = await mongoose.startSession(); session.startTransaction();
\* let transactionCommited = false;
SignUpStartTransaction(r) ==
  /\ pc[r] = "su_startSession"
  /\ txn' = [txn EXCEPT ![r] = [NoTxn EXCEPT !.state = "active"]]
  /\ calls' = [calls EXCEPT ![r] = Called(@, "startTransaction")]
  /\ transactionCommited' = [transactionCommited EXCEPT ![r] = FALSE]
  /\ pc' = [pc EXCEPT ![r] = "su_findEmail"]
  /\ UNCHANGED <<users, accounts, kind, params, existingUser, error,
                 response, accepted>>

\* User.findOne({ email }).session(session); throw if a user is found.
SignUpFindEmail(r) ==
  /\ pc[r] = "su_findEmail"
  /\ LET t == TakeSnapshot(txn[r]) IN
       \/ /\ txn' = [txn EXCEPT ![r] = t]
          /\ IF \E u \in UsersSeen(t) : u.email = params[r].email
               THEN Throw(r, Err("Error", "User already exists"), "su_catch")
               ELSE /\ pc' = [pc EXCEPT ![r] = "su_findUsername"]
                    /\ UNCHANGED error
       \/ /\ txn' = [txn EXCEPT ![r] = t]
          /\ Throw(r, DbError, "su_catch")
  /\ UNCHANGED <<users, accounts, kind, params, existingUser,
                 transactionCommited, response, calls, accepted>>

\* User.findOne({ username }).session(session); throw if a user is found.
SignUpFindUsername(r) ==
  /\ pc[r] = "su_findUsername"
  /\ \/ IF \E u \in UsersSeen(txn[r]) : u.username = params[r].username
          THEN Throw(r, Err("Error", "Username already exists"), "su_catch")
          ELSE /\ pc' = [pc EXCEPT ![r] = "su_hash"]
               /\ UNCHANGED error
     \/ Throw(r, DbError, "su_catch")
  /\ UNCHANGED <<users, accounts, kind, params, txn, existingUser,
                 transactionCommited, response, calls, accepted>>

\* const hashedPassword = await bcrypt.hash(password, 12);
SignUpHash(r) ==
  /\ pc[r] = "su_hash"
  /\ \/ /\ pc' = [pc EXCEPT ![r] = "su_createUser"]
        /\ UNCHANGED error
     \/ Throw(r, Err("Error", "hashing failed"), "su_catch")
  /\ UNCHANGED <<users, accounts, kind, params, txn, existingUser,
                 transactionCommited, response, calls, accepted>>

\* The document of User.create([{ username, name, email }], { session }).
SignUpUser(r) ==
  [id |-> r, name |-> params[r].name, username |-> params[r].username,
   email |-> params[r].email, image |-> "", ver |-> 0]

\* Mutation of SignUpAccount: providerAccountId is the username.
SignUpAccount_Username(r) ==
  [id |-> r, userId |-> r, name |-> params[r].name, image |-> "",
   provider |-> "credentials", providerAccountId |-> params[r].username,
   password |-> bcryptHash(params[r].password, BcryptRounds)]

\* The document of Account.create([{ userId: newUser._id, name,
\* provider: "credentials", providerAccountId: email, password }], ...).
SignUpAccount(r) ==
  [id |-> r, userId |-> r, name |-> params[r].name, image |-> "",
   provider |-> "credentials", providerAccountId |-> params[r].email,
   password |-> bcryptHash(params[r].password, BcryptRounds)]

SignUpCreateUser(r) ==
  /\ pc[r] = "su_createUser"
  /\ \/ /\ ~ UserKeyTaken(r, SignUpUser(r))
        /\ txn' = [txn EXCEPT ![r].newUsers = @ \cup {SignUpUser(r)}]
        /\ pc' = [pc EXCEPT ![r] = "su_createAccount"]
        /\ UNCHANGED error
     \/ /\ UserKeyTaken(r, SignUpUser(r))
        /\ Throw(r, DuplicateKey, "su_catch")
        /\ UNCHANGED txn
     \/ /\ Throw(r, DbError, "su_catch")
        /\ UNCHANGED txn
  /\ UNCHANGED <<users, accounts, kind, params, existingUser,
                 transactionCommited, response, calls, accepted>>

SignUpCreateAccount(r) ==
  /\ pc[r] = "su_createAccount"
  /\ \/ /\ ~ AccountKeyTaken(r, SignUpAccount(r))
        /\ txn' = [txn EXCEPT ![r].newAccounts = @ \cup {SignUpAccount(r)}]
        /\ pc' = [pc EXCEPT ![r] = "su_commit"]
        /\ UNCHANGED error
     \/ /\ AccountKeyTaken(r, SignUpAccount(r))
        /\ Throw(r, DuplicateKey, "su_catch")
        /\ UNCHANGED txn
     \/ /\ Throw(r, DbError, "su_catch")
        /\ UNCHANGED txn
  /\ UNCHANGED <<users, accounts, kind, params, existingUser,
                 transactionCommited, response, calls, accepted>>

\* The error a rejected abortTransaction() throws: after commitTransaction
\* was called the driver refuses the abort.
AbortError(r) ==
  IF calls[r].commitTransaction > 0
    THEN Err("MongoTransactionError",
             "Cannot call abortTransaction after calling commitTransaction")
    ELSE Err("MongoServerError", "abortTransaction failed")

\* await session.abortTransaction() of request r; the call is counted in
\* any case.  When it resolves (ok) the writes of an open transaction are
\* discarded and the transaction is aborted; when it rejects the transaction
\* stays as it was, neither committed nor aborted.
Abort(r, ok) ==
  /\ users' = (IF ok /\ Active(r) THEN UsersAfterAbort(txn[r]) ELSE users)
  /\ accounts' = (IF ok /\ Active(r) THEN AccountsAfterAbort(txn[r])
                                      ELSE accounts)
  /\ txn' = [txn EXCEPT ![r] = IF ok /\ Active(r) THEN Ended(@, "aborted")
                                                  ELSE @]
  /\ calls' = [calls EXCEPT ![r] = Called(@, "abortTransaction")]

\* session.endSession(): a transaction still open when its session ends can
\* no longer commit; its writes are dropped with the session.
EndSession(t) == IF t.state = "active" THEN Ended(t, "ended") ELSE t

\* The flow's promise rejects with e: the caller gets no response object.
Rejection(e) ==
  [sent |-> FALSE, success |-> FALSE, name |-> e.name, message |-> e.message]

\* Mutation of SignUpCommit: a failed commit is not thrown and the flow goes
\* on to signIn.
SignUpCommit_ErrorSwallowed(r) ==
  /\ pc[r] = "su_commit"
  /\ \/ /\ users' = UsersAfterCommit(txn[r])
        /\ accounts' = AccountsAfterCommit(txn[r])
        /\ txn' = [txn EXCEPT ![r] = Ended(@, "committed")]
        /\ transactionCommited' = [transactionCommited EXCEPT ![r] = TRUE]
     \/ UNCHANGED <<users, accounts, txn, transactionCommited>>
  /\ pc' = [pc EXCEPT ![r] = "su_signIn"]
  /\ calls' = [calls EXCEPT ![r] = Called(@, "commitTransaction")]
  /\ UNCHANGED <<kind, params, existingUser, error, response, accepted>>

\* try { await session.commitTransaction(); transactionCommited = true; ...
SignUpCommit(r) ==
  /\ pc[r] = "su_commit"
  /\ \/ /\ users' = UsersAfterCommit(txn[r])
        /\ accounts' = AccountsAfterCommit(txn[r])
        /\ txn' = [txn EXCEPT ![r] = Ended(@, "committed")]
        /\ transactionCommited' = [transactionCommited EXCEPT ![r] = TRUE]
        /\ pc' = [pc EXCEPT ![r] = "su_signIn"]
        /\ UNCHANGED error
     \/ /\ Throw(r, DbError, "su_catchInner")
        /\ UNCHANGED <<users, accounts, txn, transactionCommited>>
  /\ calls' = [calls EXCEPT ![r] = Called(@, "commitTransaction")]
  /\ UNCHANGED <<kind, params, existingUser, response, accepted>>

\* await signIn("credentials", { email, password, redirect: false });
\* return { success: true };
SignUpSignIn(r) ==
  /\ pc[r] = "su_signIn"
  /\ calls' = [calls EXCEPT ![r] = Called(@, "signIn")]
  /\ \/ /\ response' = [response EXCEPT ![r] = Success]
        /\ pc' = [pc EXCEPT ![r] = "su_finally"]
        /\ UNCHANGED error
     \/ /\ Throw(r, Err("CredentialsSignin", "sign in failed"), "su_catchInner")
        /\ UNCHANGED response
  /\ UNCHANGED <<users, accounts, kind, params, txn, existingUser,
                 transactionCommited, accepted>>

\* if (!transactionCommited) of the inner catch.
InnerCatchAborts(r) == ~ transactionCommited[r]

\* if (!transactionCommited) of the outer catch.
OuterCatchAborts(r) == ~ transactionCommited[r]

\* catch (error) of the inner try:
\* if (!transactionCommited) await session.abortTransaction();
\* return handleError(error);
\* The inner try statement lies inside the outer try: an abortTransaction
\* that rejects here throws into the outer catch.
SignUpCatchInner(r) ==
  /\ pc[r] = "su_catchInner"
  /\ IF InnerCatchAborts(r)
       THEN \/ /\ Abort(r, TRUE)
               /\ response' = [response EXCEPT ![r] = handleError(error[r])]
               /\ pc' = [pc EXCEPT ![r] = "su_finally"]
               /\ UNCHANGED error
            \/ /\ Abort(r, FALSE)
               /\ Throw(r, AbortError(r), "su_catch")
               /\ UNCHANGED response
       ELSE /\ response' = [response EXCEPT ![r] = handleError(error[r])]
            /\ pc' = [pc EXCEPT ![r] = "su_finally"]
            /\ UNCHANGED <<users, accounts, txn, calls, error>>
  /\ UNCHANGED <<kind, params, existingUser, transactionCommited, accepted>>

\* catch (error) of the outer try, same body.  An abortTransaction that
\* rejects here leaves the function through finally: the promise rejects
\* with the abort's error and handleError is not reached.
SignUpCatch(r) ==
  /\ pc[r] = "su_catch"
  /\ IF OuterCatchAborts(r)
       THEN \/ /\ Abort(r, TRUE)
               /\ response' = [response EXCEPT ![r] = handleError(error[r])]
               /\ pc' = [pc EXCEPT ![r] = "su_finally"]
               /\ UNCHANGED error
            \/ /\ Abort(r, FALSE)
               /\ Throw(r, AbortError(r), "su_finally")
               /\ response' = [response EXCEPT ![r] = Rejection(AbortError(r))]
       ELSE /\ response' = [response EXCEPT ![r] = handleError(error[r])]
            /\ pc' = [pc EXCEPT ![r] = "su_finally"]
            /\ UNCHANGED <<users, accounts, txn, calls, error>>
  /\ UNCHANGED <<kind, params, existingUser, transactionCommited, accepted>>

\* finally { await session.endSession(); } and the return value, or the
\* rejection, reaches the caller.
SignUpFinally(r) ==
  /\ pc[r] = "su_finally"
  /\ calls' = [calls EXCEPT ![r] = Called(@, "endSession")]
  /\ txn' = [txn EXCEPT ![r] = EndSession(@)]
  /\ pc' = [pc EXCEPT ![r] = "done"]
  /\ UNCHANGED <<users, accounts, kind, params, existingUser,
                 transactionCommited, error, response, accepted>>

(* ---------------------------------------------------------------------- *)
(* The signIn callback of NextAuth and POST of the sign-in-with-oauth route *)
(* ---------------------------------------------------------------------- *)

\* if (account?.type === "credentials") return true;
CallbackCredentials(r) ==
  /\ pc[r] = "idle"
  /\ \A o \in Slots : o < r => kind[o] # "none"
  /\ kind' = [kind EXCEPT ![r] = "callback"]
  /\ params' = [params EXCEPT ![r] = [NoParams EXCEPT !.provider = "credentials"]]
  /\ accepted' = [accepted EXCEPT ![r] = "true"]
  /\ pc' = [pc EXCEPT ![r] = "done"]
  /\ UNCHANGED <<users, accounts, txn, existingUser, transactionCommited,
                 error, response, calls>>

\* if (!account || !user) return false;
CallbackMissing(r) ==
  /\ pc[r] = "idle"
  /\ \A o \in Slots : o < r => kind[o] # "none"
  /\ kind' = [kind EXCEPT ![r] = "callback"]
  /\ accepted' = [accepted EXCEPT ![r] = "false"]
  /\ pc' = [pc EXCEPT ![r] = "done"]
  /\ UNCHANGED <<users, accounts, params, txn, existingUser,
                 transactionCommited, error, response, calls>>

\* username: account.provider === "github" ? profile.login
\*                                         : user.name.toLowerCase()
CallbackUsername(provider, login, name) ==
  IF provider = "github" THEN login ELSE toLowerCase(name)

\* userInfo is built and api.auth.oAuthSignIn({ user, provider,
\* providerAccountId }) is awaited: the request reaches POST.
CallbackOAuth(r) ==
  /\ pc[r] = "idle"
  /\ \A o \in Slots : o < r => kind[o] # "none"
  /\ kind' = [kind EXCEPT ![r] = "callback"]
  /\ \E pr \in OAuthProviders, id \in ProviderAccountIds, n \in Names,
        e \in Emails, i \in Images, l \in Logins :
       params' = [params EXCEPT ![r] =
                    [NoParams EXCEPT !.name = n, !.email = e, !.image = i,
                                     !.username = CallbackUsername(pr, l, n),
                                     !.provider = pr,
                                     !.providerAccountId = id]]
  /\ calls' = [calls EXCEPT ![r] = Called(@, "oAuthSignIn")]
  /\ pc' = [pc EXCEPT ![r] = "post_startSession"]
  /\ UNCHANGED <<users, accounts, txn, existingUser, transactionCommited,
                 error, response, accepted>>

\* const session = await mongoose.startSession(); session.startTransaction();
\* then, inside try, SignInWithOAuthSchema.safeParse and the throw of
\* ValidationError.
PostStartTransaction(r) ==
  /\ pc[r] = "post_startSession"
  /\ txn' = [txn EXCEPT ![r] = [NoTxn EXCEPT !.state = "active"]]
  /\ calls' = [calls EXCEPT ![r] = Called(@, "startTransaction")]
  /\ IF SchemaAccepts(params[r])
       THEN /\ pc' = [pc EXCEPT ![r] = "post_findUser"]
            /\ UNCHANGED error
       ELSE Throw(r, Err("ValidationError", "Validation failed"), "post_catch")
  /\ UNCHANGED <<users, accounts, kind, params, existingUser,
                 transactionCommited, response, accepted>>

\* updatedData: the fields of the profile that differ from the stored ones.
updatedData(u, p) ==
  [id |-> u.id,
   fields |-> (IF u.name # p.name THEN {"name"} ELSE {})
                \cup (IF u.image # p.image THEN {"image"} ELSE {}),
   name |-> p.name, image |-> p.image]

\* let existingUser = await User.findOne({ email }).session(session);
\* and, for a user found, the synchronous diff of name and image.
PostFindUser(r) ==
  /\ pc[r] = "post_findUser"
  /\ LET t == TakeSnapshot(txn[r])
         found == {u \in UsersSeen(t) : u.email = params[r].email}
     IN
       \/ /\ txn' = [txn EXCEPT ![r] = t]
          /\ existingUser' = [existingUser EXCEPT ![r] = found]
          /\ pc' = [pc EXCEPT ![r] =
                      IF found = {} THEN "post_createUser"
                      ELSE IF \E u \in found : updatedData(u, params[r]).fields # {}
                        THEN "post_updateUser"
                        ELSE "post_findAccount"]
          /\ UNCHANGED error
       \/ /\ txn' = [txn EXCEPT ![r] = t]
          /\ Throw(r, DbError, "post_catch")
          /\ UNCHANGED existingUser
  /\ UNCHANGED <<users, accounts, kind, params, transactionCommited,
                 response, calls, accepted>>

\* The document of User.create([{ name, username: slugifiedUsername, email,
\* image }], { session }).
PostUser(r) ==
  [id |-> r, name |-> params[r].name, username |-> slugify(params[r].username),
   email |-> params[r].email, image |-> params[r].image, ver |-> 0]

PostCreateUser(r) ==
  /\ pc[r] = "post_createUser"
  /\ \/ /\ ~ UserKeyTaken(r, PostUser(r))
        /\ txn' = [txn EXCEPT ![r].newUsers = @ \cup {PostUser(r)}]
        /\ existingUser' = [existingUser EXCEPT ![r] = {PostUser(r)}]
        /\ pc' = [pc EXCEPT ![r] = "post_findAccount"]
        /\ UNCHANGED error
     \/ /\ UserKeyTaken(r, PostUser(r))
        /\ Throw(r, DuplicateKey, "post_catch")
        /\ UNCHANGED <<txn, existingUser>>
     \/ /\ Throw(r, DbError, "post_catch")
        /\ UNCHANGED <<txn, existingUser>>
  /\ UNCHANGED <<users, accounts, kind, params, transactionCommited,
                 response, calls, accepted>>

\* await User.updateOne({ _id: existingUser._id }, { $set: updatedData })
\*   .session(session);
PostUpdateUser(r) ==
  /\ pc[r] = "post_updateUser"
  /\ \E u \in existingUser[r] :
       \/ /\ ~ UpdateConflict(r, u)
          /\ txn' = [txn EXCEPT ![r].updates = @ \cup {updatedData(u, params[r])}]
          /\ pc' = [pc EXCEPT ![r] = "post_findAccount"]
          /\ UNCHANGED error
       \/ /\ UpdateConflict(r, u)
          /\ Throw(r, DuplicateKey, "post_catch")
          /\ UNCHANGED txn
       \/ /\ Throw(r, DbError, "post_catch")
          /\ UNCHANGED txn
  /\ UNCHANGED <<users, accounts, kind, params, existingUser,
                 transactionCommited, response, calls, accepted>>

\* The filter of Account.findOne({ userId: existingUser._id, provider,
\* providerAccountId }).
AccountFilter(r, a) ==
  /\ \E u \in existingUser[r] : a.userId = u.id
  /\ a.provider = params[r].provider
  /\ a.providerAccountId = params[r].providerAccountId

PostFindAccount(r) ==
  /\ pc[r] = "post_findAccount"
  /\ \/ /\ pc' = [pc EXCEPT ![r] =
                    IF \E a \in AccountsSeen(txn[r]) : AccountFilter(r, a)
                      THEN "post_commit" ELSE "post_createAccount"]
        /\ UNCHANGED error
     \/ Throw(r, DbError, "post_catch")
  /\ UNCHANGED <<users, accounts, kind, params, txn, existingUser,
                 transactionCommited, response, calls, accepted>>

\* Mutation of PostAccountUserId: the Account gets a fresh id as userId.
PostAccountUserId_Fresh(r) == r

\* The userId of the Account POST creates: existingUser._id.
PostAccountUserId(r) == (CHOOSE u \in existingUser[r] : TRUE).id

\* The document of Account.create([{ userId: existingUser._id, name, image,
\* provider, providerAccountId }], { session }).
PostAccount(r) ==
  [id |-> r, userId |-> PostAccountUserId(r), name |-> params[r].name,
   image |-> params[r].image, provider |-> params[r].provider,
   providerAccountId |-> params[r].providerAccountId, password |-> ""]

PostCreateAccount(r) ==
  /\ pc[r] = "post_createAccount"
  /\ \/ /\ ~ AccountKeyTaken(r, PostAccount(r))
        /\ txn' = [txn EXCEPT ![r].newAccounts = @ \cup {PostAccount(r)}]
        /\ pc' = [pc EXCEPT ![r] = "post_commit"]
        /\ UNCHANGED error
     \/ /\ AccountKeyTaken(r, PostAccount(r))
        /\ Throw(r, DuplicateKey, "post_catch")
        /\ UNCHANGED txn
     \/ /\ Throw(r, DbError, "post_catch")
        /\ UNCHANGED txn
  /\ UNCHANGED <<users, accounts, kind, params, existingUser,
                 transactionCommited, response, calls, accepted>>

\* await session.commitTransaction();
\* return NextResponse.json({ success: true }); finally session.endSession()
PostCommit(r) ==
  /\ pc[r] = "post_commit"
  /\ \/ /\ users' = UsersAfterCommit(txn[r])
        /\ accounts' = AccountsAfterCommit(txn[r])
        /\ txn' = [txn EXCEPT ![r] = Ended(@, "committed")]
        /\ response' = [response EXCEPT ![r] = Success]
        /\ calls' = [calls EXCEPT ![r] =
                       Called(Called(@, "commitTransaction"), "endSession")]
        /\ pc' = [pc EXCEPT ![r] = "post_done"]
        /\ UNCHANGED error
     \/ /\ Throw(r, DbError, "post_catch")
        /\ calls' = [calls EXCEPT ![r] = Called(@, "commitTransaction")]
        /\ UNCHANGED <<users, accounts, txn, response>>
  /\ UNCHANGED <<kind, params, existingUser, transactionCommited, accepted>>

\* catch (error) { await session.abortTransaction();
\*   return handleError(error, "api") } finally { session.endSession() }
\* When abortTransaction rejects, handleError is skipped and POST rejects
\* with the abort's error; finally still ends the session.
PostCatch(r) ==
  /\ pc[r] = "post_catch"
  /\ \/ /\ users' = (IF Active(r) THEN UsersAfterAbort(txn[r]) ELSE users)
        /\ accounts' = (IF Active(r) THEN AccountsAfterAbort(txn[r])
                                     ELSE accounts)
        /\ txn' = [txn EXCEPT ![r] = IF Active(r) THEN Ended(@, "aborted")
                                                 ELSE @]
        /\ response' = [response EXCEPT ![r] = handleError(error[r])]
        /\ UNCHANGED error
     \/ /\ txn' = [txn EXCEPT ![r] = EndSession(@)]
        /\ error' = [error EXCEPT ![r] = AbortError(r)]
        /\ response' = [response EXCEPT ![r] = Rejection(AbortError(r))]
        /\ UNCHANGED <<users, accounts>>
  /\ calls' = [calls EXCEPT ![r] =
                 Called(Called(@, "abortTransaction"), "endSession")]
  /\ pc' = [pc EXCEPT ![r] = "post_done"]
  /\ UNCHANGED <<kind, params, existingUser, transactionCommited, accepted>>

\* Mutation of CallbackReturn: success is not looked at.
CallbackReturn_AlwaysTrue(r) ==
  /\ pc[r] = "post_done"
  /\ accepted' = [accepted EXCEPT ![r] = "true"]
  /\ pc' = [pc EXCEPT ![r] = "done"]
  /\ UNCHANGED <<users, accounts, kind, params, txn, existingUser,
                 transactionCommited, error, response, calls>>

\* const { success } = await api.auth.oAuthSignIn(...);
\* if (!success) return false; return true;
\* A POST that rejected carries no success.
CallbackReturn(r) ==
  /\ pc[r] = "post_done"
  /\ accepted' = [accepted EXCEPT ![r] =
                    IF response[r].success THEN "true" ELSE "false"]
  /\ pc' = [pc EXCEPT ![r] = "done"]
  /\ UNCHANGED <<users, accounts, kind, params, txn, existingUser,
                 transactionCommited, error, response, calls>>

(* ---------------------------------------------------------------------- *)
(* Specification                                                           *)
(* ---------------------------------------------------------------------- *)

Next ==
  \E r \in Slots :
    \/ signUpWithCredentials(r)
    \/ SignUpValidate(r)
    \/ SignUpStartTransaction(r)
    \/ SignUpFindEmail(r)
    \/ SignUpFindUsername(r)
    \/ SignUpHash(r)
    \/ SignUpCreateUser(r)
    \/ SignUpCreateAccount(r)
    \/ SignUpCommit(r)
    \/ SignUpSignIn(r)
    \/ SignUpCatchInner(r)
    \/ SignUpCatch(r)
    \/ SignUpFinally(r)
    \/ CallbackCredentials(r)
    \/ CallbackMissing(r)
    \/ CallbackOAuth(r)
    \/ PostStartTransaction(r)
    \/ PostFindUser(r)
    \/ PostCreateUser(r)
    \/ PostUpdateUser(r)
    \/ PostFindAccount(r)
    \/ PostCreateAccount(r)
    \/ PostCommit(r)
    \/ PostCatch(r)
    \/ CallbackReturn(r)

Spec == Init /\ [][Next]_vars

(* ---------------------------------------------------------------------- *)
(* Vocabulary of the properties                                            *)
(* ---------------------------------------------------------------------- *)

IsSignUp(r) == kind[r] = "signup"
IsOAuth(r) == kind[r] = "callback" /\ calls[r].oAuthSignIn > 0
Done(r) == pc[r] = "done"
\* The flow's return value has reached its caller.
Returned(r) == pc[r] \in {"done", "post_done"}
Committed(r) == txn[r].state = "committed"
Aborted(r) == txn[r].state = "aborted"

UsersBy(r) == {u \in users : u.id = r}
AccountsBy(r) == {a \in accounts : a.id = r}
UsersWithEmail(e) == {u \in users : u.email = e}
AccountsWithKey(pr, id) ==
  {a \in accounts : a.provider = pr /\ a.providerAccountId = id}

\* The request's transaction saw the email / the username registered.
EmailRegistered(r) == \E u \in txn[r].snapUsers : u.email = params[r].email
UsernameRegistered(r) ==
  \E u \in txn[r].snapUsers : u.username = params[r].username

(* ---------------------------------------------------------------------- *)
(* C1                                                                      *)
(* ---------------------------------------------------------------------- *)

\* C1: a signUpWithCredentials call whose transaction has not committed
\* leaves neither its User nor its Account in the database, and a User of a
\* sign-up is in the database exactly when its credentials Account is.
C1_NoPartialSignUp ==
  \A r \in Slots :
    IsSignUp(r) =>
      /\ ~ Committed(r) => UsersBy(r) = {} /\ AccountsBy(r) = {}
      /\ (UsersBy(r) # {}) <=>
           (\E a \in AccountsBy(r) : a.provider = "credentials" /\ a.userId = r)

\* A sign-up returned after its commit failed: User and Account had been
\* written in the transaction and neither is in the database.
C1_Witness ==
  \E r \in Slots :
    /\ IsSignUp(r) /\ Done(r)
    /\ calls[r].commitTransaction = 1 /\ Aborted(r)
    /\ UsersBy(r) = {} /\ AccountsBy(r) = {}

(* ---------------------------------------------------------------------- *)
(* C2                                                                      *)
(* ---------------------------------------------------------------------- *)

InjectedFailures ==
  {DbError, DuplicateKey, Err("Error", "hashing failed"),
   Err("CredentialsSignin", "sign in failed"),
   Err("MongoTransactionError",
       "Cannot call abortTransaction after calling commitTransaction"),
   Err("MongoServerError", "abortTransaction failed")}

\* C2: a sign-up that commits has created exactly one User (its email and
\* username) and exactly one Account, with provider "credentials", userId the
\* new User and providerAccountId the email; a sign-up that reports success
\* has committed; and a sign-up that returns without having committed was
\* invalid, saw its email or username registered, or met a failure of a
\* collaborator.
C2_SignUpCreatesPair ==
  \A r \in Slots :
    IsSignUp(r) =>
      /\ Committed(r) =>
           /\ Cardinality(UsersBy(r)) = 1
           /\ \A u \in UsersBy(r) :
                u.email = params[r].email /\ u.username = params[r].username
           /\ Cardinality(AccountsBy(r)) = 1
           /\ \A a \in AccountsBy(r) :
                /\ a.provider = "credentials"
                /\ a.userId = r
                /\ a.providerAccountId = params[r].email
                /\ a.password # params[r].password
           /\ Cardinality({a \in accounts : a.userId = r /\ a.provider = "credentials"}) = 1
      /\ response[r].success => Committed(r)
      /\ Done(r) /\ ~ Committed(r) =>
           \/ ~ SchemaAccepts(params[r])
           \/ EmailRegistered(r) /\ UsersWithEmail(params[r].email) # {}
           \/ UsernameRegistered(r)
           \/ error[r] \in InjectedFailures

\* A valid sign-up returned success.
C2_Witness ==
  \E r \in Slots :
    /\ IsSignUp(r) /\ Done(r) /\ response[r].success
    /\ Cardinality(UsersBy(r)) = 1 /\ Cardinality(AccountsBy(r)) = 1

(* ---------------------------------------------------------------------- *)
(* C3                                                                      *)
(* ---------------------------------------------------------------------- *)

\* C3: a sign-up whose email or username is already registered creates no
\* User and no Account and returns a ConflictError, with the message
\* "User already exists" for the email (runs in which a collaborator fails
\* for another reason are left aside).
C3_ConflictError ==
  \A r \in Slots :
    /\ IsSignUp(r) /\ Done(r) /\ error[r] \notin InjectedFailures
    /\ EmailRegistered(r) \/ UsernameRegistered(r)
    => 
      /\ UsersBy(r) = {} /\ AccountsBy(r) = {}
      /\ response[r].sent /\ ~ response[r].success
      /\ response[r].name = "ConflictError"
      /\ EmailRegistered(r) => response[r].message = "User already exists"

(* ---------------------------------------------------------------------- *)
(* C4                                                                      *)
(* ---------------------------------------------------------------------- *)

\* C4: in every database state there is at most one User per email and at
\* most one User per username, and of two sign-ups that share the email or
\* the username at most one commits.
C4_OneUserPerEmailAndUsername ==
  /\ \A u1, u2 \in users :
       u1.email = u2.email \/ u1.username = u2.username => u1.id = u2.id
  /\ \A r1, r2 \in Slots :
       /\ r1 # r2 /\ IsSignUp(r1) /\ IsSignUp(r2)
       /\ \/ params[r1].email = params[r2].email
          \/ params[r1].username = params[r2].username
       => ~ (Committed(r1) /\ Committed(r2))

\* Two concurrent sign-ups with the same email both passed the uniqueness
\* checks; one has committed and the other is about to create its User.
C4_Witness ==
  \E r1, r2 \in Slots :
    /\ r1 # r2 /\ IsSignUp(r1) /\ IsSignUp(r2)
    /\ params[r1].email = params[r2].email
    /\ Committed(r1)
    /\ pc[r2] = "su_createUser"

(* ---------------------------------------------------------------------- *)
(* C5                                                                      *)
(* ---------------------------------------------------------------------- *)

\* C5: signIn is invoked only in a run whose commit has succeeded: whenever
\* signIn has been or is about to be invoked, the transaction is committed,
\* was committed at the first attempt and was never aborted.
C5_SignInOnlyAfterCommit ==
  \A r \in Slots :
    calls[r].signIn > 0 \/ pc[r] = "su_signIn" =>
      /\ Committed(r)
      /\ transactionCommited[r]
      /\ calls[r].commitTransaction = 1
      /\ calls[r].abortTransaction = 0

\* signIn was invoked once, after the commit.
C5_Witness ==
  \E r \in Slots : IsSignUp(r) /\ Done(r) /\ calls[r].signIn = 1 /\ Committed(r)

(* ---------------------------------------------------------------------- *)
(* C6                                                                      *)
(* ---------------------------------------------------------------------- *)

\* C6: when the commit succeeds and signIn fails, the User and the Account
\* persist, nothing is aborted, and the caller does not get an error.
C6_LoginRequiredNotError ==
  \A r \in Slots :
    /\ IsSignUp(r) /\ Done(r) /\ Committed(r)
    /\ error[r] = Err("CredentialsSignin", "sign in failed")
    => /\ UsersBy(r) # {} /\ AccountsBy(r) # {}
       /\ calls[r].abortTransaction = 0
       /\ response[r] # handleError(error[r])

(* ---------------------------------------------------------------------- *)
(* C7                                                                      *)
(* ---------------------------------------------------------------------- *)

\* C7: an OAuth sign-in whose email matches an existing User never puts a
\* User of its own in the database; once it has committed there is exactly
\* one User with that email and the Account with its (provider,
\* providerAccountId) references that User.
C7_OAuthReusesUser ==
  \A r \in Slots :
    IsOAuth(r) =>
      /\ EmailRegistered(r) => UsersBy(r) = {}
      /\ Committed(r) =>
           /\ Cardinality(UsersWithEmail(params[r].email)) = 1
           /\ \E a \in AccountsWithKey(params[r].provider,
                                       params[r].providerAccountId) :
                \E u \in UsersWithEmail(params[r].email) : a.userId = u.id

\* An OAuth sign-in committed for the email of a User that a credential
\* sign-up had created, and linked a new Account to that User.
C7_Witness ==
  \E r \in Slots, s \in Slots :
    /\ IsOAuth(r) /\ Done(r) /\ Committed(r) /\ EmailRegistered(r)
    /\ IsSignUp(s) /\ Committed(s) /\ params[s].email = params[r].email
    /\ \E a \in AccountsBy(r) : a.userId = s
    /\ Cardinality(UsersWithEmail(params[r].email)) = 1

(* ---------------------------------------------------------------------- *)
(* C8                                                                      *)
(* ---------------------------------------------------------------------- *)

\* C8: in every database state there is at most one Account per (provider,
\* providerAccountId), and after an OAuth sign-in that committed there is
\* exactly one Account with its (provider, providerAccountId).
C8_OneAccountPerProviderId ==
  /\ \A a1, a2 \in accounts :
       a1.provider = a2.provider /\ a1.providerAccountId = a2.providerAccountId
         => a1 = a2
  /\ \A r \in Slots :
       IsOAuth(r) /\ Committed(r) =>
         Cardinality(AccountsWithKey(params[r].provider,
                                     params[r].providerAccountId)) = 1

\* The same (provider, providerAccountId) was presented with two different
\* emails: the first sign-in committed; the second created its own User in
\* its transaction, found no Account of that User, and its Account.create
\* was refused by the index.
C8_Witness ==
  \E r1, r2 \in Slots :
    /\ r1 # r2 /\ IsOAuth(r1) /\ IsOAuth(r2) /\ Done(r1) /\ Done(r2)
    /\ params[r1].provider = params[r2].provider
    /\ params[r1].providerAccountId = params[r2].providerAccountId
    /\ params[r1].email # params[r2].email
    /\ params[r1].name # params[r2].name
    /\ Committed(r1) /\ Aborted(r2) /\ error[r2] = DuplicateKey
    /\ calls[r2].commitTransaction = 0
    /\ existingUser[r2] = {PostUser(r2)}
    /\ UsersBy(r2) = {} /\ AccountsBy(r2) = {}

(* ---------------------------------------------------------------------- *)
(* C9                                                                      *)
(* ---------------------------------------------------------------------- *)

\* C9: a transaction is started at most once per request and abort is never
\* invoked on a committed transaction; when the flow has returned, its
\* transaction is committed or aborted, endSession was called exactly once,
\* abort was called once exactly when the transaction did not commit, and
\* an error that was caught is the error response the caller gets.
C9_TransactionLifecycle ==
  \A r \in Slots :
    /\ calls[r].startTransaction <= 1
    /\ calls[r].endSession <= 1
    /\ calls[r].abortTransaction > 0 => ~ Committed(r)
    /\ Returned(r) /\ calls[r].startTransaction = 1 =>
         /\ Committed(r) \/ Aborted(r)
         /\ calls[r].endSession = 1
         /\ Committed(r) <=> calls[r].abortTransaction = 0
         /\ Aborted(r) =>
              calls[r].abortTransaction = 1 /\ error[r] # NoError
         /\ error[r] # NoError => response[r] = handleError(error[r])
         /\ error[r] = NoError => response[r] = Success

(* ---------------------------------------------------------------------- *)
(* C10                                                                     *)
(* ---------------------------------------------------------------------- *)

\* C10: the signIn callback returns true for a credentials account and false
\* for a missing account or user, in both cases without calling the link
\* flow; otherwise it calls the link flow exactly once and returns true
\* exactly when the link flow reported success, hence never when the link
\* transaction aborted.
C10_CallbackContract ==
  \A r \in Slots :
    kind[r] = "callback" =>
      /\ calls[r].oAuthSignIn <= 1
      /\ params[r].provider = "credentials" =>
           accepted[r] = "true" /\ calls[r].oAuthSignIn = 0
      /\ params[r].provider = "" =>
           accepted[r] = "false" /\ calls[r].oAuthSignIn = 0
      /\ params[r].provider \in OAuthProviders =>
           /\ calls[r].oAuthSignIn = 1
           /\ ~ Done(r) => accepted[r] = "pending"
           /\ Done(r) => (accepted[r] = "true" <=> response[r].success)
           /\ Done(r) => accepted[r] \in {"true", "false"}
           /\ accepted[r] = "true" => Committed(r)

\* An OAuth sign-in was rejected because the link transaction aborted.
C10_Witness ==
  \E r \in Slots :
    /\ IsOAuth(r) /\ Done(r) /\ Aborted(r)
    /\ accepted[r] = "false" /\ calls[r].oAuthSignIn = 1

(* ---------------------------------------------------------------------- *)
(* C11                                                                     *)
(* ---------------------------------------------------------------------- *)

\* C11: in both flows validation completes before a transaction is opened:
\* a transaction is started only for input the schema accepts, and a request
\* that failed validation has started no transaction and so has none to
\* abort.
C11_ValidationBeforeTransaction ==
  \A r \in Slots :
    /\ calls[r].startTransaction > 0 => SchemaAccepts(params[r])
    /\ error[r].name = "ValidationError" =>
         /\ calls[r].startTransaction = 0
         /\ calls[r].abortTransaction = 0
         /\ txn[r].state = "none"

====
